---- MODULE Spec2Model ----
(***************************************************************************)
(* The per-guild playback scheduler of cogs/song.py (MusicCog, MusicPanel) *)
(* as a state machine of one guild's player.                               *)
(*                                                                         *)
(* The bot runs on one asyncio event loop: a coroutine runs without        *)
(* interruption from one await to the next, so every action below is one   *)
(* such segment of a handler.  Consecutive awaits between which the code   *)
(* touches none of the modelled fields are one suspension point.  The      *)
(* voice client's audio player runs on its own thread; what it does to the *)
(* loop (its "after" callback) is a task handed to the loop.               *)
(*                                                                         *)
(* Every I/O outcome the code branches on (extraction, resolution, opening *)
(* the stream, voice connect, playlist fetch, channel lookup) is an input. *)
(* So is a send that raises where the code does not catch it and has work  *)
(* left to do on the player: the coroutine then ends where it stands.      *)
(*                                                                         *)
(* The control panel (ensure_panel_for_guild, touch_panel,                 *)
(* _panel_inactivity_watcher) is followed in a scenario of its own, where  *)
(* an attach request stands for each call made by add_and_play,            *)
(* spotify_playlist and musicpanel and a button press for each             *)
(* touch_panel; the scheduler's handlers are written without those calls.  *)
(* _play_next's own panel part (the edit of the panel message, the new     *)
(* panel it forces when the edit fails, and the refresh task it creates)   *)
(* belongs to the scheduler's actions; the refresh scenario follows it with*)
(* a panel attached.  The panel store is self._panels, which _save_panels  *)
(* writes to disk at once.                                                 *)
(*                                                                         *)
(* A second guild stands beside the first in the two-guild scenario: its   *)
(* player and its record in the store, which the watcher visits in the     *)
(* same sweep.  The paging loop of spotify_playlist is followed pass by    *)
(* pass in the paging scenario; elsewhere an import is one step.           *)
(***************************************************************************)
EXTENDS Integers, Sequences, FiniteSets, Bags, TLC

\* ------------------------------------------------------------------ bounds
\* tracks ever created for the guild (add_and_play and playlist items together)
MaxTracks == 2
\* playlist imports ever issued
MaxImports == 1
\* tracks queued behind the playing one in the skip scenario
MaxSkipQueue == 2
\* unresolved tracks in the drain scenario
MaxDrain == 3
\* tracks queued in the panel-button scenario
MaxShuffle == 3
\* the most (in hundredths) by which a floating-point sum or difference may
\* differ from the exact one
VolErr == 1
\* tracks of the playlist's earlier pages in the failed-import scenario
MaxFetched == 2
\* panel messages ever requested in the panel scenario
MaxAttach == 2
\* sweep periods that pass in the panel scenario
MaxTicks == 11
\* tracks queued when the refresh scenario begins
MaxRefresh == 2
\* items of the playlist in the paging scenario
MaxItems == 4
\* largest cap on imported tracks in the paging scenario (0: no cap)
MaxCap == 3
\* largest page size in the paging scenario
MaxPerPage == 2

\* ------------------------------------------------------------- constants
\* volume is counted in hundredths: the default 0.15 is 15, the cap 1.0 is
\* 100, the floor 0.0 is 0 and one press of a volume button is 0.05
VolDefault == 15
VolMax == 100
VolMin == 0
VolStep == 5
\* seconds
PANEL_INACTIVITY_SECONDS == 300
\* the sleep between two sweeps of the inactivity watcher, in seconds
SweepSleep == 30

VARIABLES
    hasPlayer,      \* guild_id in self.players
    voice_client,   \* player["voice_client"]: "none" or "conn"
    vcState,        \* the voice client's current audio player: "idle", "playing", "paused"
    playingId,      \* id of the track whose source that audio player reads (0: none)
    queue,          \* player["queue"]
    now,            \* player["now"]
    start_time,     \* player["start_time"] is set
    repeat,         \* player["repeat"]
    volume,         \* player["volume"], in hundredths
    threads,        \* bag of suspended coroutines and of callbacks handed to the loop
    nextId,         \* next fresh track id
    imports,        \* playlist imports issued so far
    attempts,       \* lazy resolutions that have returned
    notices,        \* "Skipped track (could not resolve)" notices sent
    first,          \* id of the track add_and_play appended onto an idle session with an empty
                    \* queue, while since then only add_and_play has acted, every stream has
                    \* opened and no track has ended; 0 otherwise
    panel_msg_id,       \* player["panel_msg_id"] (0: None)
    panel_channel_id,   \* player["panel_channel_id"] is set
    panel_last_active,  \* player["panel_last_active"], in seconds (-1: None)
    panels,             \* self._panels[str(guild_id)]["panel_msg_id"] (0: no record)
    live,               \* ids of the panel messages sent and not deleted
    nextMsg,            \* next fresh message id
    clock,              \* time.time(), in seconds
    ptasks,             \* bag of suspended panel coroutines: [pc, msg, emb, upd, at]
    panel_updater,      \* the task in player["panel_updater"]: [pc, msg], pc "none" once
                        \* it is done or cancelled, or before the first one is created
    shown,              \* for each live panel message, the id of the track its embed
                        \* shows as "Now Playing" (0: the idle embed)
    last_interaction,   \* time of the latest command or button press followed in the
                        \* panel scenario, in seconds (-1: none)
    other,              \* a second guild: its entry of self.players (has: it exists;
                        \* panel_msg_id: the field is set), in rec whether
                        \* self._panels holds a record under its id, in live
                        \* whether its panel message exists
    page                \* the locals of spotify_playlist's paging loop and the
                        \* playlist it reads: [pc, items, cap, per_page,
                        \* total_expected, fetched, offset, added, out]

panelVars == <<panel_msg_id, panel_channel_id, panel_last_active, panels, live, nextMsg,
               clock, ptasks, panel_updater, shown, last_interaction, other, page>>

\* the panel state that no scheduler segment writes
panelKept == <<panel_msg_id, panel_channel_id, panels, live, nextMsg, clock, shown,
               last_interaction, other, page>>

schedVars == <<hasPlayer, voice_client, vcState, playingId, queue, now, start_time, repeat,
               volume, threads, nextId, imports, attempts, notices, first, page>>

vars == <<hasPlayer, voice_client, vcState, playingId, queue, now, start_time, repeat,
          volume, threads, nextId, imports, attempts, notices, first, panelVars>>

\* ------------------------------------------------------------------ tracks
\* A track dict: its identity, whether it carries a stream_url, and its
\* title: "info" (the extractor's title) or "given" (the title a playlist
\* import queued it with).  A track without a stream_url carries a query (a
\* playlist item awaiting lazy resolution).
NoTrack == [id |-> 0, stream |-> FALSE, title |-> ""]
EagerTrack(i) == [id |-> i, stream |-> TRUE, title |-> "info"]
LazyTrack(i) == [id |-> i, stream |-> FALSE, title |-> "given"]
\* _resolve_lazy_track on success: the dict gets its stream_url, and the
\* extractor's title when the extractor gives one (titled).
Resolved(t, titled) ==
    [t EXCEPT !.stream = TRUE, !.title = IF titled THEN "info" ELSE @]
RepeatModes == {"off", "all", "single"}

Ids(q) == [k \in 1..Len(q) |-> q[k].id]
IdSet(q) == {q[k].id : k \in 1..Len(q)}

\* ----------------------------------------------------------------- threads
\* A suspended coroutine: where it resumes (pc) and the track it holds in a
\* local (trk), NoTrack when it holds none.  For a completion callback, trk is
\* the track whose player ended and why tells what ended it: "end" (the source
\* ran out), "skip" or "stop" (vc.stop() from that handler); "" otherwise.
Th(pc, trk) == [pc |-> pc, trk |-> trk, why |-> ""]
ThEnd(trk, why) == [pc |-> "ap_start", trk |-> trk, why |-> why]
One(r) == SetToBag({r})
Live == BagToSet(threads)
CountPc(S) == LET sel == {r \in Live : r.pc \in S}
                  RECURSIVE Sum(_)
                  Sum(T) == IF T = {} THEN 0
                            ELSE LET r == CHOOSE x \in T : TRUE
                                 IN threads[r] + Sum(T \ {r})
              IN Sum(sel)

\* The fields the scheduler's segments read and write, as one record, so that a
\* segment that runs into the next without suspending composes.
Cur == [queue |-> queue, now |-> now, start_time |-> start_time, vcState |-> vcState,
        playingId |-> playingId, th |-> threads, attempts |-> attempts,
        notices |-> notices, first |-> first, upd |-> panel_updater,
        pla |-> panel_last_active, pt |-> ptasks]

Commit(s) ==
    /\ queue' = s.queue
    /\ now' = s.now
    /\ start_time' = s.start_time
    /\ vcState' = s.vcState
    /\ playingId' = s.playingId
    /\ threads' = s.th
    /\ attempts' = s.attempts
    /\ notices' = s.notices
    /\ first' = s.first
    /\ panel_updater' = s.upd
    /\ panel_last_active' = s.pla
    /\ ptasks' = s.pt

Without(s, r) == [s EXCEPT !.th = @ (-) One(r)]
Spawn(s, r) == [s EXCEPT !.th = @ (+) One(r)]

\* ------------------------------------------------------ the refresh task
\* The task of _panel_updater_task: "wait" before its loop test (just created,
\* or in its sleep), "fetch" while it awaits the fetch and edit of message msg.
Ut(pc, msg) == [pc |-> pc, msg |-> msg]
NoUpdater == Ut("none", 0)

\* A panel coroutine suspended at pc; msg is the panel_id it read before, emb
\* the track of the embed it built for the message it sends, upd tells that
\* it was called by _play_next, which goes on to create the refresh task.
Pt(pc, msg) == [pc |-> pc, msg |-> msg, emb |-> 0, upd |-> FALSE, at |-> 0]
PLive == BagToSet(ptasks)
PCount(pcs) == BagCardinality([t \in {x \in PLive : x.pc \in pcs} |-> ptasks[t]])

\* ------------------------------------------------------- the voice client
\* The track the audio player was started with: player["now"] unless now has
\* been overwritten since the start.
PlayingTrack(n, i) == IF n.id = i THEN n ELSE EagerTrack(i)

\* vc.stop(): ends the current audio player, if any; the player's thread then
\* calls the "after" given to vc.play, which hands _after_play to the loop.
VcStop(s, why) ==
    IF s.vcState = "idle" THEN s
    ELSE Spawn([s EXCEPT !.vcState = "idle", !.playingId = 0],
               ThEnd(PlayingTrack(s.now, s.playingId), why))

\* --------------------------------------------------------------- scheduler
\* An _after_play that applies the repeat policy and leaves now as it is.
AfterPlayKeepsNow(s) ==
    LET q == IF s.now = NoTrack THEN s.queue
             ELSE IF repeat = "single" THEN <<s.now>> \o s.queue
             ELSE IF repeat = "all" THEN Append(s.queue, s.now)
             ELSE s.queue
    IN Spawn([s EXCEPT !.queue = q, !.start_time = FALSE, !.upd = NoUpdater],
             Th("ap_sleep", NoTrack))

\* An _after_play that requeues a copy of now without its stream_url.
AfterPlayForgetsStream(s) ==
    LET n == [s.now EXCEPT !.stream = FALSE]
        q == IF s.now = NoTrack THEN s.queue
             ELSE IF repeat = "single" THEN <<n>> \o s.queue
             ELSE IF repeat = "all" THEN Append(s.queue, n)
             ELSE s.queue
    IN Spawn([s EXCEPT !.queue = q, !.now = NoTrack, !.start_time = FALSE,
                       !.upd = NoUpdater],
             Th("ap_sleep", NoTrack))

\* _after_play: the repeat policy on player["now"], then now and start_time
\* are cleared, the refresh task is cancelled and the coroutine sleeps 0.4 s
\* before _play_next.
AfterPlayF(s) ==
    LET q == IF s.now = NoTrack THEN s.queue
             ELSE IF repeat = "single" THEN <<s.now>> \o s.queue
             ELSE IF repeat = "all" THEN Append(s.queue, s.now)
             ELSE s.queue
    IN Spawn([s EXCEPT !.queue = q, !.now = NoTrack, !.start_time = FALSE,
                       !.upd = NoUpdater],
             Th("ap_sleep", NoTrack))

\* _play_next's except branch: the error is sent when a channel is found
\* (a suspension), then _after_play runs in the same coroutine.
StartFailedF(s, chan) ==
    IF chan THEN Spawn(s, Th("pn_errsend", NoTrack)) ELSE AfterPlayF(s)

\* A _play_next that creates the new refresh task without cancelling the one
\* in player["panel_updater"].
KeepOld(u) == u

\* updater.cancel() on the task in player["panel_updater"], when there is one
\* that is not done.
CancelOld(u) == NoUpdater

\* The tasks that exist once player["panel_updater"] has been given a new
\* task: a task old that was in the field and still runs is left among the
\* coroutines, without a reference to it.
LeftBehind(old, tasks) ==
    IF old.pc = "none" THEN tasks ELSE tasks (+) One(Pt("upd_left", old.msg))

\* The end of _play_next's try block: panel_last_active is set, the refresh
\* task is cancelled and a new one is created.
NewUpdaterF(s) ==
    [s EXCEPT !.pla = clock, !.pt = LeftBehind(CancelOld(s.upd), @), !.upd = Ut("wait", 0)]

\* _play_next after vc.play: with a panel and a channel for it, the panel
\* message is fetched and edited (a suspension); then the refresh task.
PanelPartF(s, chan) ==
    IF panel_msg_id # 0 /\ chan
    THEN [s EXCEPT !.pt = @ (+) One(Pt("pn_edit", panel_msg_id))]
    ELSE NewUpdaterF(s)

\* _play_next from player["now"] = next_track on.  opens: FFmpegPCMAudio could
\* be built for the stream.  vc.play raises while the client is playing, and
\* on the client leave has disconnected, which the coroutine still holds; on a
\* paused client it replaces the paused player, which is never heard again.
StartF(s, t, opens, chan) ==
    LET s1 == [s EXCEPT !.now = t]
    IN IF ~opens THEN StartFailedF([s1 EXCEPT !.first = 0], chan)
       ELSE IF s.vcState = "playing" \/ voice_client = "none"
            THEN StartFailedF([s1 EXCEPT !.start_time = TRUE], chan)
       ELSE PanelPartF([s1 EXCEPT !.start_time = TRUE, !.vcState = "playing",
                                  !.playingId = t.id], chan)

\* _play_next up to its first suspension.
PlayNextF(s, opens, chan) ==
    IF voice_client = "none" THEN s
    ELSE IF s.queue = << >> THEN [s EXCEPT !.now = NoTrack]
    ELSE LET t == Head(s.queue)
             s1 == [s EXCEPT !.queue = Tail(@)]
         IN IF ~t.stream THEN Spawn(s1, Th("pn_resolve", t))
            ELSE StartF(s1, t, opens, chan)

\* ------------------------------------------------------------ add_and_play
\* Advances between their queue pop and the start of playback (or their return).
InFlight == CountPc({"pn_resolve", "pn_sleep"})

\* add_and_play up to its first suspension: get_player, then ensure_voice,
\* which returns None for a caller who is in no voice channel.
AapStart ==
    /\ nextId + CountPc({"aap_connect", "aap_extract"}) <= MaxTracks
    /\ hasPlayer' = TRUE
    /\ \E inVoice \in BOOLEAN :
         IF ~inVoice THEN UNCHANGED threads
         ELSE threads' = threads (+) One(Th(IF voice_client = "none" THEN "aap_connect"
                                            ELSE "aap_extract", NoTrack))
    /\ UNCHANGED <<voice_client, vcState, playingId, queue, now, start_time, repeat, volume,
                   nextId, imports, attempts, notices, first>>
    /\ UNCHANGED panelVars

\* channel.connect() returns: it fails when the connect fails or when another
\* request connected the guild meanwhile.
AapConnect(r) ==
    /\ r.pc = "aap_connect"
    /\ \E ok \in BOOLEAN :
         IF ok /\ voice_client = "none"
         THEN /\ voice_client' = "conn"
              /\ threads' = (threads (-) One(r)) (+) One(Th("aap_extract", NoTrack))
         ELSE /\ threads' = threads (-) One(r)
              /\ UNCHANGED voice_client
    /\ UNCHANGED <<hasPlayer, vcState, playingId, queue, now, start_time, repeat, volume,
                   nextId, imports, attempts, notices, first>>
    /\ UNCHANGED panelVars

\* The extraction returns: without a playable stream the request ends with a
\* message; with one the track is built and appended.
AapExtract(r) ==
    /\ r.pc = "aap_extract"
    /\ \E found \in BOOLEAN :
         IF ~found
         THEN /\ threads' = threads (-) One(r)
              /\ UNCHANGED <<queue, nextId, first>>
         ELSE /\ queue' = Append(queue, EagerTrack(nextId))
              /\ nextId' = nextId + 1
              /\ threads' = (threads (-) One(r)) (+) One(Th("aap_queued", NoTrack))
              /\ first' = IF now = NoTrack /\ vcState = "idle" /\ queue = << >> /\ InFlight = 0
                          THEN nextId ELSE first
    /\ UNCHANGED <<hasPlayer, voice_client, vcState, playingId, now, start_time, repeat,
                   volume, imports, attempts, notices>>
    /\ UNCHANGED panelVars

\* An add_and_play that calls _play_next without asking whether the client is idle.
AapCheckAlways(r) ==
    /\ r.pc = "aap_queued"
    /\ \E opens \in BOOLEAN, chan \in BOOLEAN :
         Commit(PlayNextF(Without(Cur, r), opens, chan))
    /\ UNCHANGED <<hasPlayer, voice_client, repeat, volume, nextId, imports>>
    /\ UNCHANGED panelKept

\* After the "Queued" reply (which may raise) and the panel: start if idle.
AapCheck(r) ==
    /\ r.pc = "aap_queued"
    /\ \E opens \in BOOLEAN, chan \in BOOLEAN, sent \in BOOLEAN :
         Commit(IF sent /\ vcState = "idle" THEN PlayNextF(Without(Cur, r), opens, chan)
                ELSE Without(Cur, r))
    /\ UNCHANGED <<hasPlayer, voice_client, repeat, volume, nextId, imports>>
    /\ UNCHANGED panelKept

\* -------------------------------------------------------- spotify_playlist
\* The paging loop makes blocking calls only, so the import appends its k
\* tracks in one segment; a fetch that raises after k tracks ends the import
\* with a "Could not fetch playlist" message.
\* An import that takes back the tracks of the earlier pages when a page
\* fetch fails.
ImportRollsBack(failed, room) ==
    /\ imports' = imports + 1
    /\ hasPlayer' = TRUE
    /\ \E k \in 0..room :
         /\ queue' = IF failed THEN queue
                      ELSE queue \o [i \in 1..k |-> LazyTrack(nextId + i - 1)]
         /\ nextId' = nextId + k
    /\ threads' = IF failed THEN threads ELSE threads (+) One(Th("sp_panel", NoTrack))
    /\ first' = 0
    /\ UNCHANGED <<voice_client, vcState, playingId, now, start_time, repeat, volume,
                   attempts, notices>>
    /\ UNCHANGED panelVars

\* room: the most tracks the playlist may hold here; failed: a page fetch
\* raised after the k tracks of the earlier pages were appended.
Import(failed, room) ==
    /\ imports' = imports + 1
    /\ hasPlayer' = TRUE
    /\ \E k \in 0..room :
         /\ queue' = queue \o [i \in 1..k |-> LazyTrack(nextId + i - 1)]
         /\ nextId' = nextId + k
    /\ threads' = IF failed THEN threads ELSE threads (+) One(Th("sp_panel", NoTrack))
    /\ first' = 0
    /\ UNCHANGED <<voice_client, vcState, playingId, now, start_time, repeat, volume,
                   attempts, notices>>
    /\ UNCHANGED panelVars

SpotifyPlaylist ==
    /\ imports < MaxImports
    /\ \E failed \in BOOLEAN :
         Import(failed, MaxTracks + 1 - nextId - CountPc({"aap_connect", "aap_extract"}))

\* After the panel and the "Added" reply (which may raise): ensure_voice,
\* then start if idle.
SpVoice(r) ==
    /\ r.pc = "sp_panel"
    /\ \E inVoice \in BOOLEAN, opens \in BOOLEAN, chan \in BOOLEAN, sent \in BOOLEAN :
         Commit(IF ~sent \/ ~inVoice THEN Without(Cur, r)
                ELSE IF voice_client = "none"
                     THEN Spawn(Without(Cur, r), Th("sp_connect", NoTrack))
                ELSE IF vcState = "idle" THEN PlayNextF(Without(Cur, r), opens, chan)
                ELSE Without(Cur, r))
    /\ UNCHANGED <<hasPlayer, voice_client, repeat, volume, nextId, imports>>
    /\ UNCHANGED panelKept

\* channel.connect() returns to ensure_voice; connected, the new client is
\* idle and _play_next runs.
SpConnect(r) ==
    /\ r.pc = "sp_connect"
    /\ \E ok \in BOOLEAN, opens \in BOOLEAN, chan \in BOOLEAN :
         IF ok /\ voice_client = "none"
         THEN /\ voice_client' = "conn"
              /\ Commit(IF queue = << >> THEN [Without(Cur, r) EXCEPT !.now = NoTrack]
                        ELSE LET s1 == [Without(Cur, r) EXCEPT !.queue = Tail(@)]
                                 t == Head(queue)
                             IN IF ~t.stream THEN Spawn(s1, Th("pn_resolve", t))
                                ELSE StartF(s1, t, opens, chan))
         ELSE /\ UNCHANGED voice_client
              /\ Commit(Without(Cur, r))
    /\ UNCHANGED <<hasPlayer, repeat, volume, nextId, imports>>
    /\ UNCHANGED panelKept

\* ------------------------------------------------- _play_next, resumed
\* A resolution that never takes the extractor's title.
PnResolveKeepsTitle(r, resolved, titled) ==
    /\ r.pc = "pn_resolve"
    /\ \E opens \in BOOLEAN, chan \in BOOLEAN, sent \in BOOLEAN :
         LET s == [Without(Cur, r) EXCEPT !.attempts = @ + 1]
         IN Commit(IF resolved THEN StartF(s, Resolved(r.trk, FALSE), opens, chan)
                   ELSE IF chan /\ ~sent THEN s
                   ELSE Spawn([s EXCEPT !.notices = @ + (IF chan THEN 1 ELSE 0)],
                              Th("pn_sleep", NoTrack)))
    /\ UNCHANGED <<hasPlayer, voice_client, repeat, volume, nextId, imports>>
    /\ UNCHANGED panelKept

\* _resolve_lazy_track returns: the track now carries a stream_url and is
\* started, or it is dropped with a notice (when a channel is found) and the
\* coroutine sleeps 0.2 s before the next _play_next.  The notice is sent
\* outside any try: a send that raises ends the coroutine.  A resolved track
\* takes the extractor's title when the extractor gives one (titled).
PnResolveInfo(r, resolved, titled) ==
    /\ r.pc = "pn_resolve"
    /\ \E opens \in BOOLEAN, chan \in BOOLEAN, sent \in BOOLEAN :
         LET s == [Without(Cur, r) EXCEPT !.attempts = @ + 1]
         IN Commit(IF resolved THEN StartF(s, Resolved(r.trk, titled), opens, chan)
                   ELSE IF chan /\ ~sent THEN s
                   ELSE Spawn([s EXCEPT !.notices = @ + (IF chan THEN 1 ELSE 0)],
                              Th("pn_sleep", NoTrack)))
    /\ UNCHANGED <<hasPlayer, voice_client, repeat, volume, nextId, imports>>
    /\ UNCHANGED panelKept

PnResolveWith(r, resolved) == \E titled \in BOOLEAN : PnResolveInfo(r, resolved, titled)

PnResolve(r) == \E resolved \in BOOLEAN : PnResolveWith(r, resolved)

\* The 0.2 s sleep after a skipped track is over: _play_next again.
PnSleepWake(r) ==
    /\ r.pc = "pn_sleep"
    /\ \E opens \in BOOLEAN, chan \in BOOLEAN :
         Commit(PlayNextF(Without(Cur, r), opens, chan))
    /\ UNCHANGED <<hasPlayer, voice_client, repeat, volume, nextId, imports>>
    /\ UNCHANGED panelKept

\* The "Playback error" message is sent: _after_play(guild_id, e); a send
\* that raises leaves the except block before that call.
PnErrSent(r) ==
    /\ r.pc = "pn_errsend"
    /\ \E sent \in BOOLEAN :
         Commit(IF sent THEN AfterPlayF(Without(Cur, r)) ELSE Without(Cur, r))
    /\ UNCHANGED <<hasPlayer, voice_client, repeat, volume, nextId, imports>>
    /\ UNCHANGED panelKept

\* ------------------------------------------------------------- completion
\* An "after" callback that runs _after_play's body on the player's thread.
PlayerEndsInline ==
    /\ vcState = "playing"
    /\ Commit(AfterPlayF([Cur EXCEPT !.vcState = "idle", !.playingId = 0, !.first = 0]))
    /\ UNCHANGED <<hasPlayer, voice_client, repeat, volume, nextId, imports>>
    /\ UNCHANGED panelKept

\* The audio player reaches the end of its source: its thread hands
\* _after_play to the loop.
PlayerEnds ==
    /\ vcState = "playing"
    /\ vcState' = "idle"
    /\ playingId' = 0
    /\ threads' = threads (+) One(ThEnd(PlayingTrack(now, playingId), "end"))
    /\ first' = 0
    /\ UNCHANGED <<hasPlayer, voice_client, queue, now, start_time, repeat, volume,
                   nextId, imports, attempts, notices>>
    /\ UNCHANGED panelVars

\* _after_play runs on the loop, up to its sleep.
AfterPlay(r) ==
    /\ r.pc = "ap_start"
    /\ Commit(AfterPlayF(Without(Cur, r)))
    /\ UNCHANGED <<hasPlayer, voice_client, repeat, volume, nextId, imports>>
    /\ UNCHANGED panelKept

\* The 0.4 s sleep is over: _play_next.
AfterPlayWake(r) ==
    /\ r.pc = "ap_sleep"
    /\ \E opens \in BOOLEAN, chan \in BOOLEAN :
         Commit(PlayNextF(Without(Cur, r), opens, chan))
    /\ UNCHANGED <<hasPlayer, voice_client, repeat, volume, nextId, imports>>
    /\ UNCHANGED panelKept

\* ----------------------------------------------------------- user actions
\* A skip that, besides stopping the player, calls _play_next itself.
SkipAndAdvance ==
    /\ voice_client # "none"
    /\ vcState # "idle"
    /\ \E opens \in BOOLEAN, chan \in BOOLEAN :
         Commit(PlayNextF([VcStop(Cur, "skip") EXCEPT !.first = 0], opens, chan))
    /\ UNCHANGED <<hasPlayer, voice_client, repeat, volume, nextId, imports>>
    /\ UNCHANGED panelKept

\* skip (command and button): refused unless something is playing or paused.
Skip ==
    /\ voice_client # "none"
    /\ vcState # "idle"
    /\ Commit([VcStop(Cur, "skip") EXCEPT !.first = 0])
    /\ UNCHANGED <<hasPlayer, voice_client, repeat, volume, nextId, imports>>
    /\ UNCHANGED panelKept

\* stop: vc.stop(), then the queue is cleared; the command (cmd) also
\* cancels the refresh task, the button does not.
Stop ==
    /\ voice_client # "none"
    /\ \E cmd \in BOOLEAN :
         Commit([VcStop(Cur, "stop") EXCEPT !.queue = << >>, !.first = 0,
                                            !.upd = IF cmd THEN NoUpdater ELSE @])
    /\ UNCHANGED <<hasPlayer, voice_client, repeat, volume, nextId, imports>>
    /\ UNCHANGED panelKept

\* leave (command and button) up to its await of vc.disconnect(), which first
\* stops the audio player; refused without a voice client.  One leave at a
\* time is followed.
LeaveStart ==
    /\ hasPlayer
    /\ voice_client # "none"
    /\ CountPc({"lv_disc"}) = 0
    /\ Commit(Spawn([VcStop(Cur, "leave") EXCEPT !.first = 0], Th("lv_disc", NoTrack)))
    /\ UNCHANGED <<hasPlayer, voice_client, repeat, volume, nextId, imports>>
    /\ UNCHANGED panelKept

\* vc.disconnect() has returned: the voice client is dropped, the queue is
\* cleared, now is cleared, repeat is set to "off" and the refresh task is
\* cancelled.  A player started on the client while it was disconnecting is
\* gone with it; whether its "after" is still called (ended) is the library's
\* choice.
LeaveDone(r) ==
    /\ r.pc = "lv_disc"
    /\ voice_client' = "none"
    /\ repeat' = "off"
    /\ \E ended \in BOOLEAN :
         Commit(LET s == [Without(Cur, r) EXCEPT !.queue = << >>, !.now = NoTrack,
                                                 !.upd = NoUpdater, !.first = 0,
                                                 !.vcState = "idle", !.playingId = 0]
                IN IF vcState # "idle" /\ ended
                   THEN Spawn(s, ThEnd(PlayingTrack(now, playingId), "leave"))
                   ELSE s)
    /\ UNCHANGED <<hasPlayer, volume, nextId, imports>>
    /\ UNCHANGED panelKept

\* A pause that also forgets the current track.
PauseDropsNow ==
    /\ voice_client # "none"
    /\ vcState = "playing"
    /\ vcState' = "paused"
    /\ now' = NoTrack
    /\ UNCHANGED <<hasPlayer, voice_client, playingId, queue, start_time, repeat, volume,
                   threads, nextId, imports, attempts, notices, first>>
    /\ UNCHANGED panelVars

\* pause (command, and the pause/resume button on a playing client): refused
\* unless something is playing.
Pause ==
    /\ voice_client # "none"
    /\ vcState = "playing"
    /\ vcState' = "paused"
    /\ UNCHANGED <<hasPlayer, voice_client, playingId, queue, now, start_time, repeat, volume,
                   threads, nextId, imports, attempts, notices, first>>
    /\ UNCHANGED panelVars

\* resume (command, and the pause/resume button on a paused client): refused
\* unless the client is paused.
Resume ==
    /\ voice_client # "none"
    /\ vcState = "paused"
    /\ vcState' = "playing"
    /\ UNCHANGED <<hasPlayer, voice_client, playingId, queue, now, start_time, repeat, volume,
                   threads, nextId, imports, attempts, notices, first>>
    /\ UNCHANGED panelVars

\* An exchange that loses q[i]: q[i] takes q[j] and q[j] is left as it was.
SwapLossy(q, i, j) == [q EXCEPT ![i] = q[j]]

\* random.shuffle(q): for i from the last index down to the second, exchange
\* q[i] with q[j] for a random j <= i.
Swap(q, i, j) == [q EXCEPT ![i] = q[j], ![j] = q[i]]
RECURSIVE ShuffleFrom(_, _)
ShuffleFrom(q, i) ==
    IF i < 2 THEN {q}
    ELSE UNION {ShuffleFrom(Swap(q, i, j), i - 1) : j \in 1..i}
Shuffled(q) == ShuffleFrom(q, Len(q))

ShuffleBtn ==
    /\ hasPlayer
    /\ queue' \in Shuffled(queue)
    /\ first' = 0
    /\ UNCHANGED <<hasPlayer, voice_client, vcState, playingId, now, start_time, repeat,
                   volume, threads, nextId, imports, attempts, notices>>
    /\ UNCHANGED panelVars

\* A Repeat button that leaves "all" for "off".
NextModeTwoWay(m) == IF m = "off" THEN "all" ELSE "off"

\* repeat_btn's step: off to all, all to single, anything else to off.
NextMode(m) == IF m = "off" THEN "all" ELSE IF m = "all" THEN "single" ELSE "off"

RepeatBtn ==
    /\ hasPlayer
    /\ repeat' = NextMode(repeat)
    /\ first' = 0
    /\ UNCHANGED <<hasPlayer, voice_client, vcState, playingId, queue, now, start_time,
                   volume, threads, nextId, imports, attempts, notices>>
    /\ UNCHANGED panelVars

Min(a, b) == IF a < b THEN a ELSE b
Max(a, b) == IF a > b THEN a ELSE b

\* A volume button without its clamp.
VolUpUnclamped ==
    /\ hasPlayer
    /\ \E e \in (0 - VolErr)..VolErr : volume' = volume + VolStep + e
    /\ UNCHANGED <<hasPlayer, voice_client, vcState, playingId, queue, now, start_time,
                   repeat, threads, nextId, imports, attempts, notices, first>>
    /\ UNCHANGED panelVars

\* player["volume"] is a float and 0.05 is not a binary fraction, so the sum
\* and the difference are rounded: e is the rounding error of this press.  A
\* float v and a count m correspond when v = 1.0 and m = VolMax, v = 0.0 and
\* m = VolMin, or v lies strictly between and within 0.01 of m / 100; for
\* every press of the code some e in -VolErr..VolErr keeps them so.
VolUp ==
    /\ hasPlayer
    /\ \E e \in (0 - VolErr)..VolErr : volume' = Min(VolMax, volume + VolStep + e)
    /\ UNCHANGED <<hasPlayer, voice_client, vcState, playingId, queue, now, start_time,
                   repeat, threads, nextId, imports, attempts, notices, first>>
    /\ UNCHANGED panelVars

VolDown ==
    /\ hasPlayer
    /\ \E e \in (0 - VolErr)..VolErr : volume' = Max(VolMin, volume - VolStep + e)
    /\ UNCHANGED <<hasPlayer, voice_client, vcState, playingId, queue, now, start_time,
                   repeat, threads, nextId, imports, attempts, notices, first>>
    /\ UNCHANGED panelVars

\* ------------------------------------------------------------ control panel
\* A panel button is pressed: every button handler calls touch_panel first.
Touch ==
    /\ hasPlayer
    /\ panel_last_active' = clock
    /\ UNCHANGED <<panel_msg_id, panel_channel_id, panels, live, nextMsg, clock, ptasks,
                   panel_updater, shown>>
    /\ last_interaction' = clock
    /\ UNCHANGED <<schedVars, other>>

\* The embed's track: create_panel_embed shows player["now"].
Embed == now.id

\* Forgetting a deleted message.
Drop(f, m) == [x \in DOMAIN f \ {m} |-> f[x]]

\* ensure_panel_for_guild(channel, guild_id, force=True) up to its first
\* await: with a panel_id it goes to fetch and delete the old message,
\* without one to send the new message.
EnsureF(upd) ==
    IF panel_msg_id # 0 THEN [Pt("ep_delete", panel_msg_id) EXCEPT !.upd = upd]
    ELSE [Pt("ep_send", 0) EXCEPT !.emb = Embed, !.upd = upd]

\* musicpanel, and add_and_play's and the playlist import's call of
\* ensure_panel_for_guild.
EnsurePanel ==
    /\ hasPlayer
    /\ nextMsg + PCount({"ep_delete", "ep_send"}) <= MaxAttach
    /\ ptasks' = ptasks (+) One(EnsureF(FALSE))
    /\ UNCHANGED <<panel_msg_id, panel_channel_id, panel_last_active, panels, live, nextMsg,
                   clock, panel_updater, shown>>
    /\ last_interaction' = clock
    /\ UNCHANGED <<schedVars, other>>

\* A forced delete that forgets panel_msg_id and leaves the stored record.
EpDeleteKeepsRecord(t) ==
    /\ t.pc = "ep_delete"
    /\ \E deleted \in BOOLEAN :
         /\ live' = IF deleted THEN live \ {t.msg} ELSE live
         /\ shown' = IF deleted THEN Drop(shown, t.msg) ELSE shown
    /\ panel_msg_id' = 0
    /\ ptasks' = (ptasks (-) One(t)) (+) One([t EXCEPT !.pc = "ep_send", !.msg = 0,
                                                       !.emb = Embed])
    /\ UNCHANGED <<panel_channel_id, panel_last_active, panels, nextMsg, clock, panel_updater>>
    /\ UNCHANGED <<schedVars, last_interaction, other>>

\* The fetch and delete of the old message have returned (deleted) or
\* raised, which is swallowed; the finally block forgets the panel and its
\* record; panel_msg_id is now None, so the new message is sent next.
EpDelete(t) ==
    /\ t.pc = "ep_delete"
    /\ \E deleted \in BOOLEAN :
         /\ live' = IF deleted THEN live \ {t.msg} ELSE live
         /\ shown' = IF deleted THEN Drop(shown, t.msg) ELSE shown
    /\ panel_msg_id' = 0
    /\ panels' = 0
    /\ ptasks' = (ptasks (-) One(t)) (+) One([t EXCEPT !.pc = "ep_send", !.msg = 0,
                                                       !.emb = Embed])
    /\ UNCHANGED <<panel_channel_id, panel_last_active, nextMsg, clock, panel_updater>>
    /\ UNCHANGED <<schedVars, last_interaction, other>>

\* channel.send has returned the new message, which becomes the panel, or
\* has raised, which is logged.  Called by _play_next (t.upd), the refresh
\* task is created next; the other callers go on to touch_panel, musicpanel
\* after a reply that may raise (touched).
EpSend(t) ==
    /\ t.pc = "ep_send"
    /\ \E sent \in BOOLEAN :
         IF sent
         THEN /\ live' = live \cup {nextMsg}
              /\ shown' = [m \in live \cup {nextMsg} |->
                              IF m = nextMsg THEN t.emb ELSE shown[m]]
              /\ panel_msg_id' = nextMsg
              /\ panel_channel_id' = TRUE
              /\ panels' = nextMsg
              /\ panel_last_active' = clock
              /\ nextMsg' = nextMsg + 1
         ELSE /\ \E touched \in BOOLEAN :
                   panel_last_active' = IF t.upd \/ touched THEN clock
                                        ELSE panel_last_active
              /\ UNCHANGED <<live, shown, panel_msg_id, panel_channel_id, panels, nextMsg>>
    /\ ptasks' = IF t.upd THEN LeftBehind(CancelOld(panel_updater), ptasks (-) One(t))
                  ELSE ptasks (-) One(t)
    /\ panel_updater' = IF t.upd THEN Ut("wait", 0) ELSE panel_updater
    /\ UNCHANGED clock
    /\ UNCHANGED <<schedVars, last_interaction, other>>

\* _play_next's fetch and edit of the panel message have returned (ok: the
\* message shows the current embed) or raised; then a new panel is forced
\* before the refresh task is created.
PnEdit(t) ==
    /\ t.pc = "pn_edit"
    /\ \E ok \in {o \in BOOLEAN : o => t.msg \in live} :
         IF ok
         THEN /\ shown' = [shown EXCEPT ![t.msg] = Embed]
              /\ ptasks' = LeftBehind(CancelOld(panel_updater), ptasks (-) One(t))
              /\ panel_last_active' = clock
              /\ panel_updater' = Ut("wait", 0)
         ELSE /\ nextMsg + PCount({"ep_delete", "ep_send"}) <= MaxAttach
              /\ ptasks' = (ptasks (-) One(t)) (+) One(EnsureF(TRUE))
              /\ UNCHANGED <<shown, panel_last_active, panel_updater>>
    /\ UNCHANGED <<panel_msg_id, panel_channel_id, panels, live, nextMsg, clock>>
    /\ UNCHANGED <<schedVars, last_interaction, other>>

\* _panel_updater_task at its loop test: it ends when nothing is playing, when
\* the player has no panel or no panel channel, or when the channel is not
\* found (chan); otherwise it goes to fetch and edit the panel message.
UpdCheck ==
    /\ panel_updater.pc = "wait"
    /\ \E chan \in BOOLEAN :
         panel_updater' = IF now = NoTrack \/ panel_msg_id = 0 \/ ~panel_channel_id \/ ~chan
                          THEN NoUpdater
                          ELSE Ut("fetch", panel_msg_id)
    /\ UNCHANGED <<panel_msg_id, panel_channel_id, panel_last_active, panels, live, nextMsg,
                   clock, ptasks, shown>>
    /\ UNCHANGED <<schedVars, last_interaction, other>>

\* The refresh task's fetch and edit have returned (ok), and it sleeps
\* PANEL_PROGRESS_UPDATE_INTERVAL before its next loop test, or one of them
\* has raised, and the task returns.
UpdEdited ==
    /\ panel_updater.pc = "fetch"
    /\ \E ok \in {o \in BOOLEAN : o => panel_updater.msg \in live} :
         IF ok
         THEN /\ shown' = [shown EXCEPT ![panel_updater.msg] = Embed]
              /\ panel_updater' = Ut("wait", 0)
         ELSE /\ UNCHANGED shown
              /\ panel_updater' = NoUpdater
    /\ UNCHANGED <<panel_msg_id, panel_channel_id, panel_last_active, panels, live, nextMsg,
                   clock, ptasks>>
    /\ UNCHANGED <<schedVars, last_interaction, other>>

\* The commands that refuse to act, each with its test.
Refused(c) ==
    CASE c = "pause" -> voice_client = "none" \/ vcState # "playing"
      [] c = "resume" -> voice_client = "none" \/ vcState # "paused"
      [] c = "stop" -> voice_client = "none"
      [] c = "skip" -> voice_client = "none" \/ vcState = "idle"
      [] c = "leave" -> voice_client = "none"
      [] c = "nowplaying" -> now = NoTrack
      [] c = "queue" -> queue = << >>

\* A command is refused: it returns with its reply, before its touch_panel.
CmdRejected ==
    /\ hasPlayer
    /\ \E c \in {"pause", "resume", "stop", "skip", "leave", "nowplaying", "queue"} :
         Refused(c)
    /\ last_interaction' = clock
    /\ UNCHANGED <<panel_msg_id, panel_channel_id, panel_last_active, panels, live, nextMsg,
                   clock, ptasks, panel_updater, shown>>
    /\ UNCHANGED <<schedVars, other>>

\* Time passes.
Tick ==
    /\ clock < MaxTicks * SweepSleep
    /\ clock' = clock + SweepSleep
    /\ UNCHANGED <<panel_msg_id, panel_channel_id, panel_last_active, panels, live, nextMsg,
                   ptasks, panel_updater, shown>>
    /\ UNCHANGED <<schedVars, last_interaction, other>>

\* The sweep's test on the player: a panel with a channel and a last
\* activity more than PANEL_INACTIVITY_SECONDS before now_t.
Stale ==
    /\ panel_msg_id # 0
    /\ panel_channel_id
    /\ panel_last_active # -1
    /\ clock - panel_last_active > PANEL_INACTIVITY_SECONDS

\* The sweep's "clear stored panel".
Detach ==
    /\ panel_msg_id' = 0
    /\ panel_channel_id' = FALSE
    /\ panels' = 0
    /\ panel_last_active' = -1

\* The second guild before anything has asked for its player; rec tells
\* whether the panel store holds a record for it, live whether the panel
\* message of that record exists.
NoOther(rec) ==
    [has |-> FALSE, voice_client |-> "none", queue |-> << >>, now |-> NoTrack,
     volume |-> VolDefault, repeat |-> "off", panel_msg_id |-> FALSE,
     panel_channel_id |-> FALSE, panel_last_active |-> -1, rec |-> rec, live |-> rec]

\* get_player for the second guild: a new dict of its own, the panel ids
\* restored from the guild's record in the store.
OtherGetPlayer ==
    /\ ~other.has
    /\ other' = [other EXCEPT !.has = TRUE, !.panel_msg_id = other.rec,
                              !.panel_channel_id = other.rec]
    /\ UNCHANGED <<panel_msg_id, panel_channel_id, panel_last_active, panels, live, nextMsg,
                   clock, ptasks, panel_updater, shown, last_interaction>>
    /\ UNCHANGED schedVars

\* A button of the second guild's panel other than Repeat, or touch_panel
\* for that guild.
OtherTouch ==
    /\ other.has
    /\ other' = [other EXCEPT !.panel_last_active = clock]
    /\ UNCHANGED <<panel_msg_id, panel_channel_id, panel_last_active, panels, live, nextMsg,
                   clock, ptasks, panel_updater, shown, last_interaction>>
    /\ UNCHANGED schedVars

\* The Repeat button of the second guild's panel.
OtherRepeatBtn ==
    /\ other.has
    /\ other' = [other EXCEPT !.repeat = NextMode(@), !.panel_last_active = clock]
    /\ UNCHANGED <<panel_msg_id, panel_channel_id, panel_last_active, panels, live, nextMsg,
                   clock, ptasks, panel_updater, shown, last_interaction>>
    /\ UNCHANGED schedVars

\* The sweep's test on the second guild's player, at the sweep's now_t.
StaleOther(now_t) ==
    /\ other.has
    /\ other.panel_msg_id
    /\ other.panel_channel_id
    /\ other.panel_last_active # -1
    /\ now_t - other.panel_last_active > PANEL_INACTIVITY_SECONDS

\* The sweep's "clear stored panel" on the second guild's player and record.
DetachOther ==
    [other EXCEPT !.panel_msg_id = FALSE, !.panel_channel_id = FALSE,
                  !.panel_last_active = -1, !.rec = FALSE]

\* The watcher's iteration for the second guild's player, which follows the
\* first guild's in the order of self.players, with the now_t read at the
\* start of the sweep and the tasks left by the first iteration.
SweepOther(now_t, tasks) ==
    IF StaleOther(now_t)
    THEN \E chan \in BOOLEAN :
           IF chan
           THEN /\ ptasks' = tasks (+) One([Pt("sw_delete_other", 0) EXCEPT !.at = now_t])
                /\ other' = other
           ELSE /\ ptasks' = tasks
                /\ other' = DetachOther
    ELSE /\ ptasks' = tasks
         /\ other' = other

\* A sweep that forgets the panel but leaves its record in the store.
SwDeleteKeepsRecord(t) ==
    /\ t.pc = "sw_delete"
    /\ \E deleted \in BOOLEAN :
         /\ live' = IF deleted THEN live \ {t.msg} ELSE live
         /\ shown' = IF deleted THEN Drop(shown, t.msg) ELSE shown
    /\ panel_msg_id' = 0
    /\ panel_channel_id' = FALSE
    /\ panel_last_active' = -1
    /\ SweepOther(t.at, ptasks (-) One(t))
    /\ UNCHANGED <<panels, nextMsg, clock, panel_updater>>
    /\ UNCHANGED <<schedVars, last_interaction>>

\* A sweep that empties the panel store when it detaches a panel.
SwDeleteClearsStore(t) ==
    /\ t.pc = "sw_delete"
    /\ \E deleted \in BOOLEAN :
         /\ live' = IF deleted THEN live \ {t.msg} ELSE live
         /\ shown' = IF deleted THEN Drop(shown, t.msg) ELSE shown
    /\ Detach
    /\ ptasks' = ptasks (-) One(t)
    /\ other' = [other EXCEPT !.rec = FALSE]
    /\ UNCHANGED <<nextMsg, clock, panel_updater>>
    /\ UNCHANGED <<schedVars, last_interaction>>

\* One sweep of _panel_inactivity_watcher up to its first await (the watcher
\* is one task: no second sweep starts while one is suspended).  A stale
\* panel whose channel is found is fetched and deleted; one whose channel is
\* not found (chan) is detached at once, and the loop goes on to the next
\* player.
SweepTick ==
    /\ hasPlayer
    /\ PCount({"sw_delete", "sw_delete_other"}) = 0
    /\ IF Stale
       THEN \E chan \in BOOLEAN :
              IF chan
              THEN /\ ptasks' = ptasks (+) One([Pt("sw_delete", panel_msg_id)
                                                  EXCEPT !.at = clock])
                   /\ UNCHANGED <<panel_msg_id, panel_channel_id, panel_last_active, panels,
                                  other>>
              ELSE Detach /\ SweepOther(clock, ptasks)
       ELSE /\ UNCHANGED <<panel_msg_id, panel_channel_id, panel_last_active, panels>>
            /\ SweepOther(clock, ptasks)
    /\ UNCHANGED <<live, nextMsg, clock, panel_updater, shown>>
    /\ UNCHANGED <<schedVars, last_interaction>>

\* The sweep's fetch and delete have returned (deleted) or raised, which is
\* swallowed; the panel is detached whatever has happened meanwhile, and the
\* loop goes on to the next player.
SwDelete(t) ==
    /\ t.pc = "sw_delete"
    /\ \E deleted \in BOOLEAN :
         /\ live' = IF deleted THEN live \ {t.msg} ELSE live
         /\ shown' = IF deleted THEN Drop(shown, t.msg) ELSE shown
    /\ Detach
    /\ SweepOther(t.at, ptasks (-) One(t))
    /\ UNCHANGED <<nextMsg, clock, panel_updater>>
    /\ UNCHANGED <<schedVars, last_interaction>>

\* The same for the second guild's panel, the last player of the sweep.
SwDeleteOther(t) ==
    /\ t.pc = "sw_delete_other"
    /\ \E deleted \in BOOLEAN :
         other' = [DetachOther EXCEPT !.live = IF deleted THEN FALSE ELSE @]
    /\ ptasks' = ptasks (-) One(t)
    /\ UNCHANGED <<panel_msg_id, panel_channel_id, panel_last_active, panels, live, nextMsg,
                   clock, panel_updater, shown, last_interaction>>
    /\ UNCHANGED schedVars

\* ------------------------------------------------------ the paging loop
\* No import is paging.
NoPage ==
    [pc |-> "none", items |-> << >>, cap |-> 0, per_page |-> 0, total_expected |-> -1,
     fetched |-> 0, offset |-> 0, added |-> 0, out |-> << >>]

\* playlist_items(pid, limit, offset) of a playlist whose items are its (TRUE:
\* the item carries a track): the items at offset + 1 .. offset + limit.
PlaylistItems(its, limit, offset) ==
    SubSeq(its, offset + 1, Min(offset + limit, Len(its)))

\* The for loop over one page, from its k-th item on: st holds fetched,
\* added and out (the playlist positions of the tracks appended so far); an
\* item without a track is passed over, and the loop is left once fetched
\* has reached a positive cap.
RECURSIVE ForItems(_, _, _, _, _)
ForItems(items, k, base, cap, st) ==
    IF k > Len(items) THEN st
    ELSE IF ~items[k] THEN ForItems(items, k + 1, base, cap, st)
    ELSE LET st2 == [st EXCEPT !.fetched = @ + 1, !.added = @ + 1,
                               !.out = Append(@, base + k)]
         IN IF cap # 0 /\ st2.fetched >= cap THEN st2
            ELSE ForItems(items, k + 1, base, cap, st2)

\* A paging loop that moves its offset by the tracks it appended instead of
\* the items it received.
OffsetByAdded(offset, items, st) == offset + (st.added - page.added)

\* offset += len(items)
NextOffset(offset, items, st) == offset + Len(items)

\* One pass of the while loop of spotify_playlist.  The calls of the Spotify
\* client block, so nothing else runs between two passes; every track
\* appended is a dict without stream_url.
PlaylistPage ==
    /\ page.pc = "loop"
    /\ LET to_fetch == IF page.cap # 0
                       THEN Min(page.per_page, Max(1, page.cap - page.fetched))
                       ELSE page.per_page
           items == PlaylistItems(page.items, to_fetch, page.offset)
           st == ForItems(items, 1, page.offset, page.cap, page)
           offset == NextOffset(page.offset, items, st)
           k == st.added - page.added
       IN IF to_fetch <= 0 \/ items = << >>
          THEN /\ page' = [page EXCEPT !.pc = "done"]
               /\ UNCHANGED <<queue, nextId>>
          ELSE /\ page' = [st EXCEPT !.offset = offset,
                              !.pc = IF \/ page.cap # 0 /\ st.fetched >= page.cap
                                        \/ page.total_expected # -1 /\ offset >= page.total_expected
                                        \/ Len(items) < to_fetch
                                     THEN "done" ELSE "loop"]
               /\ queue' = queue \o [i \in 1..k |-> LazyTrack(nextId + i - 1)]
               /\ nextId' = nextId + k
    /\ UNCHANGED <<hasPlayer, voice_client, vcState, playingId, now, start_time, repeat,
                   volume, threads, imports, attempts, notices, first>>
    /\ UNCHANGED <<panel_msg_id, panel_channel_id, panel_last_active, panels, live, nextMsg,
                   clock, ptasks, panel_updater, shown, last_interaction, other>>

\* ------------------------------------------------------------ specification
\* get_player with nothing in the panel store: no panel.
NoPanel ==
    /\ panel_msg_id = 0
    /\ panel_channel_id = FALSE
    /\ panel_last_active = -1
    /\ panels = 0
    /\ live = {}
    /\ nextMsg = 1
    /\ clock = 0
    /\ ptasks = EmptyBag
    /\ panel_updater = NoUpdater
    /\ other = NoOther(FALSE)
    /\ page = NoPage
    /\ shown = << >>
    /\ last_interaction = -1

Init ==
    /\ hasPlayer = FALSE
    /\ voice_client = "none"
    /\ vcState = "idle"
    /\ playingId = 0
    /\ queue = << >>
    /\ now = NoTrack
    /\ start_time = FALSE
    /\ repeat = "off"
    /\ volume = VolDefault
    /\ threads = EmptyBag
    /\ nextId = 1
    /\ imports = 0
    /\ attempts = 0
    /\ notices = 0
    /\ first = 0
    /\ NoPanel

Next ==
    \/ AapStart
    \/ \E r \in Live : AapConnect(r)
    \/ \E r \in Live : AapExtract(r)
    \/ \E r \in Live : AapCheck(r)
    \/ SpotifyPlaylist
    \/ \E r \in Live : SpVoice(r)
    \/ \E r \in Live : SpConnect(r)
    \/ \E r \in Live : PnResolve(r)
    \/ \E r \in Live : PnSleepWake(r)
    \/ \E r \in Live : PnErrSent(r)
    \/ PlayerEnds
    \/ \E r \in Live : AfterPlay(r)
    \/ \E r \in Live : AfterPlayWake(r)
    \/ Skip
    \/ Stop
    \/ Pause
    \/ Resume
    \/ ShuffleBtn
    \/ RepeatBtn
    \/ UpdCheck

Spec == Init /\ [][Next]_vars

\* ---------------------------------------------------------------- scenarios
\* The first n tracks in the order of their ids, each with or without a
\* stream_url, with ids from..from+n-1.
QueuesFrom(from, n) ==
    {[k \in 1..n |-> IF f[k] THEN EagerTrack(from + k - 1) ELSE LazyTrack(from + k - 1)] :
        f \in [1..n -> BOOLEAN]}

\* Skip scenario: track 1 is playing or paused with up to MaxSkipQueue tracks
\* queued behind it; from there only skip, pause, resume, the end of the
\* track and the scheduler's own steps act.
InitSkip ==
    /\ hasPlayer = TRUE
    /\ voice_client = "conn"
    /\ vcState \in {"playing", "paused"}
    /\ playingId = 1
    /\ now = EagerTrack(1)
    /\ start_time = TRUE
    /\ \E n \in 0..MaxSkipQueue : queue \in QueuesFrom(2, n) /\ nextId = n + 2
    /\ repeat \in RepeatModes
    /\ volume = VolDefault
    /\ threads = EmptyBag
    /\ imports = 0
    /\ attempts = 0
    /\ notices = 0
    /\ first = 0
    /\ NoPanel

NextSkip ==
    \/ Skip
    \/ Pause
    \/ Resume
    \/ PlayerEnds
    \/ \E r \in Live : AfterPlay(r)
    \/ \E r \in Live : AfterPlayWake(r)
    \/ \E r \in Live : PnResolve(r)
    \/ \E r \in Live : PnSleepWake(r)
    \/ \E r \in Live : PnErrSent(r)

SpecSkip == InitSkip /\ [][NextSkip]_vars

\* Leave scenario: the sessions of the skip scenario, with the refresh task
\* of the track that is playing; leave is issued at some moment, the track's
\* end, the scheduler's own steps and the Repeat button act, and nothing is
\* enqueued.
InitLeave ==
    /\ hasPlayer = TRUE
    /\ voice_client = "conn"
    /\ vcState \in {"playing", "paused"}
    /\ playingId = 1
    /\ now = EagerTrack(1)
    /\ start_time = TRUE
    /\ \E n \in 0..MaxSkipQueue : queue \in QueuesFrom(2, n) /\ nextId = n + 2
    /\ repeat \in RepeatModes
    /\ volume = VolDefault
    /\ threads = EmptyBag
    /\ imports = 0
    /\ attempts = 0
    /\ notices = 0
    /\ first = 0
    /\ panel_msg_id = 0
    /\ panel_channel_id = FALSE
    /\ panel_last_active = 0
    /\ panels = 0
    /\ live = {}
    /\ nextMsg = 1
    /\ clock = 0
    /\ ptasks = EmptyBag
    /\ panel_updater = Ut("wait", 0)
    /\ other = NoOther(FALSE)
    /\ page = NoPage
    /\ shown = << >>
    /\ last_interaction = -1

NextLeave ==
    \/ LeaveStart
    \/ \E r \in Live : LeaveDone(r)
    \/ PlayerEnds
    \/ \E r \in Live : AfterPlay(r)
    \/ \E r \in Live : AfterPlayWake(r)
    \/ \E r \in Live : PnResolve(r)
    \/ \E r \in Live : PnSleepWake(r)
    \/ \E r \in Live : PnErrSent(r)
    \/ UpdCheck
    \/ RepeatBtn

SpecLeave == InitLeave /\ [][NextLeave]_vars

\* Drain scenario: the last track has ended and _after_play sleeps before
\* _play_next, with N unresolved playlist tracks queued; every resolution
\* fails.  The repeat button may be pressed at any time.
DrainN == nextId - 1

InitDrain ==
    /\ hasPlayer = TRUE
    /\ voice_client = "conn"
    /\ vcState = "idle"
    /\ playingId = 0
    /\ now = NoTrack
    /\ start_time = FALSE
    /\ \E n \in 0..MaxDrain : queue = [k \in 1..n |-> LazyTrack(k)] /\ nextId = n + 1
    /\ repeat \in RepeatModes
    /\ volume = VolDefault
    /\ threads = One(Th("ap_sleep", NoTrack))
    /\ imports = 1
    /\ attempts = 0
    /\ notices = 0
    /\ first = 0
    /\ NoPanel

AdvanceStep ==
    \/ \E r \in Live : AfterPlayWake(r)
    \/ \E r \in Live : PnResolveWith(r, FALSE)
    \/ \E r \in Live : PnSleepWake(r)

NextDrain == AdvanceStep \/ RepeatBtn

\* The loop resumes a coroutine whose sleep is over or whose awaited call
\* has returned.
SpecDrain == InitDrain /\ [][NextDrain]_vars /\ WF_vars(AdvanceStep)

\* Panel-button scenario: a player with up to MaxShuffle tracks queued in the
\* order of their ids, any repeat mode, the volume at its default or at
\* either end, with or without a track playing; only the shuffle and repeat
\* buttons act.
InitButtons ==
    /\ hasPlayer = TRUE
    /\ voice_client = "conn"
    /\ \E n \in 0..MaxShuffle : queue \in QueuesFrom(2, n) /\ nextId = n + 2
    /\ \/ vcState = "idle" /\ playingId = 0 /\ now = NoTrack /\ start_time = FALSE
       \/ vcState = "playing" /\ playingId = 1 /\ now = EagerTrack(1) /\ start_time = TRUE
    /\ repeat \in RepeatModes
    /\ volume \in {VolMin, VolDefault, VolMax}
    /\ threads = EmptyBag
    /\ imports = 0
    /\ attempts = 0
    /\ notices = 0
    /\ first = 0
    /\ NoPanel

NextButtons ==
    \/ ShuffleBtn
    \/ RepeatBtn

SpecButtons == InitButtons /\ [][NextButtons]_vars

\* Repeat scenario: the sessions of the panel-button scenario with the repeat
\* mode at its default; only the Repeat button acts.
InitRepeat == InitButtons /\ repeat = "off"

NextRepeat == RepeatBtn

SpecRepeat == InitRepeat /\ [][NextRepeat]_vars

\* Failed-import scenario: onto any session of the panel-button scenario, one
\* playlist is imported whose page fetch fails after up to MaxFetched tracks.
NextImport == imports = 0 /\ Import(TRUE, MaxFetched)

SpecImport == InitButtons /\ [][NextImport]_vars

\* Volume scenario: a fresh player at the default volume, in any repeat mode,
\* with or without a track playing; only the two volume buttons act.
InitVolume ==
    /\ hasPlayer = TRUE
    /\ voice_client = "conn"
    /\ queue = << >>
    /\ nextId = 2
    /\ \/ vcState = "idle" /\ playingId = 0 /\ now = NoTrack /\ start_time = FALSE
       \/ vcState = "playing" /\ playingId = 1 /\ now = EagerTrack(1) /\ start_time = TRUE
    /\ repeat \in RepeatModes
    /\ volume = VolDefault
    /\ threads = EmptyBag
    /\ imports = 0
    /\ attempts = 0
    /\ notices = 0
    /\ first = 0
    /\ NoPanel

NextVolume ==
    \/ VolUp
    \/ VolDown

SpecVolume == InitVolume /\ [][NextVolume]_vars

\* Lazy-track scenario: onto a fresh idle session, with the bot in a voice
\* channel or not, at any volume end and repeat mode, one playlist of at most
\* one track is imported; nothing else is requested.
InitLazy ==
    /\ hasPlayer = FALSE
    /\ voice_client \in {"none", "conn"}
    /\ vcState = "idle"
    /\ playingId = 0
    /\ queue = << >>
    /\ now = NoTrack
    /\ start_time = FALSE
    /\ repeat \in RepeatModes
    /\ volume \in {VolMin, VolDefault, VolMax}
    /\ threads = EmptyBag
    /\ nextId = 1
    /\ imports = 0
    /\ attempts = 0
    /\ notices = 0
    /\ first = 0
    /\ NoPanel

NextLazy ==
    \/ imports = 0 /\ Import(FALSE, 1)
    \/ \E r \in Live : SpVoice(r)
    \/ \E r \in Live : SpConnect(r)
    \/ \E r \in Live : PnResolve(r)
    \/ \E r \in Live : PnSleepWake(r)
    \/ \E r \in Live : PnErrSent(r)
    \/ PlayerEnds
    \/ \E r \in Live : AfterPlay(r)
    \/ \E r \in Live : AfterPlayWake(r)

SpecLazy == InitLazy /\ [][NextLazy]_vars

\* Panel scenario: an idle player without a panel, or one whose panel was
\* restored from the store when the bot came up (_register_views_on_ready);
\* only the panel code acts while time passes.
InitPanel ==
    /\ hasPlayer = TRUE
    /\ voice_client = "none"
    /\ vcState = "idle"
    /\ playingId = 0
    /\ queue = << >>
    /\ now = NoTrack
    /\ start_time = FALSE
    /\ repeat = "off"
    /\ volume = VolDefault
    /\ threads = EmptyBag
    /\ nextId = 1
    /\ imports = 0
    /\ attempts = 0
    /\ notices = 0
    /\ first = 0
    /\ clock = 0
    /\ ptasks = EmptyBag
    /\ panel_updater = NoUpdater
    /\ \/ NoPanel
       \/ /\ panel_msg_id = 1
          /\ panel_channel_id = TRUE
          /\ panel_last_active = 0
          /\ panels = 1
          /\ live = {1}
          /\ shown = [m \in {1} |-> 0]
          /\ nextMsg = 2
          /\ last_interaction = -1
          /\ other = NoOther(FALSE)
          /\ page = NoPage

NextPanel ==
    \/ Touch
    \/ CmdRejected
    \/ EnsurePanel
    \/ \E t \in PLive : EpDelete(t)
    \/ \E t \in PLive : EpSend(t)
    \/ Tick
    \/ SweepTick
    \/ \E t \in PLive : SwDelete(t)

SpecPanel == InitPanel /\ [][NextPanel]_vars

\* Two-guild scenario: the panel scenario's session with its panel restored
\* from the store, beside a second guild that has a record in the store and
\* whose player is made on its first use.
InitGuilds ==
    /\ hasPlayer = TRUE
    /\ voice_client = "none"
    /\ vcState = "idle"
    /\ playingId = 0
    /\ queue = << >>
    /\ now = NoTrack
    /\ start_time = FALSE
    /\ repeat = "off"
    /\ volume = VolDefault
    /\ threads = EmptyBag
    /\ nextId = 1
    /\ imports = 0
    /\ attempts = 0
    /\ notices = 0
    /\ first = 0
    /\ clock = 0
    /\ ptasks = EmptyBag
    /\ panel_updater = NoUpdater
    /\ panel_msg_id = 1
    /\ panel_channel_id = TRUE
    /\ panel_last_active = 0
    /\ panels = 1
    /\ live = {1}
    /\ shown = [m \in {1} |-> 0]
    /\ nextMsg = 2
    /\ last_interaction = -1
    /\ other = NoOther(TRUE)
    /\ page = NoPage

NextGuilds ==
    \/ Touch
    \/ EnsurePanel
    \/ \E t \in PLive : EpDelete(t)
    \/ \E t \in PLive : EpSend(t)
    \/ Tick
    \/ SweepTick
    \/ \E t \in PLive : SwDelete(t)
    \/ \E t \in PLive : SwDeleteOther(t)
    \/ OtherGetPlayer
    \/ OtherTouch
    \/ OtherRepeatBtn

SpecGuilds == InitGuilds /\ [][NextGuilds]_vars

\* Paging scenario: a playlist of up to MaxItems items, some without a track,
\* is imported page by page onto a connected session with an empty queue or
\* one track queued; the cap and the page size are any values up to MaxCap
\* and MaxPerPage, and the playlist's total is known (its number of items) or
\* not (the metadata request failed).
InitPaging ==
    /\ hasPlayer = TRUE
    /\ voice_client = "conn"
    /\ vcState = "idle"
    /\ playingId = 0
    /\ \/ queue = << >> /\ nextId = 1
       \/ queue = <<EagerTrack(1)>> /\ nextId = 2
    /\ now = NoTrack
    /\ start_time = FALSE
    /\ repeat = "off"
    /\ volume = VolDefault
    /\ threads = EmptyBag
    /\ imports = 1
    /\ attempts = 0
    /\ notices = 0
    /\ first = 0
    /\ panel_msg_id = 0
    /\ panel_channel_id = FALSE
    /\ panel_last_active = -1
    /\ panels = 0
    /\ live = {}
    /\ nextMsg = 1
    /\ clock = 0
    /\ ptasks = EmptyBag
    /\ panel_updater = NoUpdater
    /\ other = NoOther(FALSE)
    /\ shown = << >>
    /\ last_interaction = -1
    /\ \E n \in 0..MaxItems, cap \in 0..MaxCap, per \in 1..MaxPerPage, known \in BOOLEAN :
         \E its \in [1..n -> BOOLEAN] :
           page = [NoPage EXCEPT !.pc = "loop", !.items = its, !.cap = cap,
                                 !.per_page = per,
                                 !.total_expected = IF known THEN n ELSE -1]

NextPaging == PlaylistPage

SpecPaging == InitPaging /\ [][NextPaging]_vars /\ WF_vars(PlaylistPage)

\* Queue-order scenario: a fresh session on which tracks are enqueued, played,
\* paused and resumed; the repeat mode stays off and nobody shuffles, skips
\* or stops.
NextFifo ==
    \/ AapStart
    \/ \E r \in Live : AapConnect(r)
    \/ \E r \in Live : AapExtract(r)
    \/ \E r \in Live : AapCheck(r)
    \/ SpotifyPlaylist
    \/ \E r \in Live : SpVoice(r)
    \/ \E r \in Live : SpConnect(r)
    \/ \E r \in Live : PnResolve(r)
    \/ \E r \in Live : PnSleepWake(r)
    \/ \E r \in Live : PnErrSent(r)
    \/ PlayerEnds
    \/ \E r \in Live : AfterPlay(r)
    \/ \E r \in Live : AfterPlayWake(r)
    \/ Pause
    \/ Resume
    \/ UpdCheck

SpecFifo == Init /\ [][NextFifo]_vars

\* Refresh scenario: a connected idle session with up to MaxRefresh tracks
\* queued and repeat off, with or without a panel (showing the idle embed), whose advance is
\* about to run; tracks start and end, the panel is refreshed, musicpanel may
\* be called, and skip and stop may be pressed.
InitRefresh ==
    /\ hasPlayer = TRUE
    /\ voice_client = "conn"
    /\ vcState = "idle"
    /\ playingId = 0
    /\ now = NoTrack
    /\ start_time = FALSE
    /\ \E n \in 0..MaxRefresh : queue = [k \in 1..n |-> EagerTrack(k)] /\ nextId = n + 1
    /\ repeat = "off"
    /\ volume = VolDefault
    /\ threads = One(Th("ap_sleep", NoTrack))
    /\ imports = 0
    /\ attempts = 0
    /\ notices = 0
    /\ first = 0
    /\ clock = 0
    /\ ptasks = EmptyBag
    /\ panel_updater = NoUpdater
    /\ \/ NoPanel
       \/ /\ panel_msg_id = 1
          /\ panel_channel_id = TRUE
          /\ panel_last_active = 0
          /\ panels = 1
          /\ live = {1}
          /\ shown = [m \in {1} |-> 0]
          /\ nextMsg = 2
          /\ last_interaction = -1
          /\ other = NoOther(FALSE)
          /\ page = NoPage

NextRefresh ==
    \/ \E r \in Live : AfterPlayWake(r)
    \/ \E r \in Live : PnErrSent(r)
    \/ \E t \in PLive : PnEdit(t)
    \/ UpdCheck
    \/ UpdEdited
    \/ PlayerEnds
    \/ \E r \in Live : AfterPlay(r)
    \/ EnsurePanel
    \/ \E t \in PLive : EpDelete(t)
    \/ \E t \in PLive : EpSend(t)
    \/ Skip
    \/ Stop

SpecRefresh == InitRefresh /\ [][NextRefresh]_vars

\* -------------------------------------------------------------------- claims
Done == threads = EmptyBag
\* completions and advances that have not yet started a track or returned
AdvPending == CountPc({"ap_start", "ap_sleep", "pn_resolve", "pn_sleep", "pn_errsend"})
Multiset(q) ==
    [x \in {q[k] : k \in DOMAIN q} |-> Cardinality({k \in DOMAIN q : q[k] = x})]

\* C1: at most one advance is in flight at any time: a _play_next entered from
\* add_and_play, spotify_playlist or _after_play never pops the queue while
\* another _play_next is between its own pop and the start of playback.
C1_OneAdvanceInFlight ==
    [][\A r \in Live :
         ((AapCheck(r) \/ SpVoice(r) \/ SpConnect(r) \/ AfterPlayWake(r))
            /\ Len(queue') < Len(queue))
         => InFlight = 0]_vars

\* C2: from a playing or paused track, under any sequence of skips, pauses and
\* resumes, at most one completion or advance is pending at a time, and
\* whenever the client plays or is paused none is pending and player["now"]
\* is the one track the client plays: a skip that comes before the advance of
\* the previous one has started a track is refused and starts nothing.
C2_OnePlaybackUnderSkips ==
    /\ AdvPending <= 1
    /\ vcState # "idle" => (AdvPending = 0 /\ now # NoTrack /\ now.id = playingId)

\* C2 witness: a skip has stopped the player, its completion is not yet
\* handled and tracks are queued: the state in which a second skip arrives.
C2_SkipPending ==
    /\ vcState = "idle"
    /\ queue # << >>
    /\ \E r \in Live : r.pc = "ap_start" /\ r.why = "skip"

\* C3: player["now"] is set if and only if the voice client is playing or
\* paused; stated here only for the states in which no coroutine is suspended
\* and no completion callback is pending, where the claim fails already.
C3_NowIffActive == Done => ((now # NoTrack) <=> (vcState # "idle"))

\* C4: after stop, the stopped track is not put back into the queue, for
\* every repeat mode.
C4_StoppedNotRequeued ==
    [][\A r \in Live :
         (AfterPlay(r) /\ r.why = "stop") => r.trk.id \notin IdSet(queue')]_vars

\* C5: with repeat = single, the track whose playback ended naturally is at the
\* front of the queue, unchanged, right after its completion is handled.
C5_SingleRequeuesFront ==
    [][\A r \in Live :
         (AfterPlay(r) /\ r.why = "end" /\ repeat = "single")
         => (queue' # << >> /\ Head(queue') = r.trk)]_vars

\* C6: with repeat = all, when A ends naturally with B the rest of the queue,
\* the queue is then B followed by A and nothing is now playing.
C6_AllRequeuesBack ==
    [][\A r \in Live :
         (AfterPlay(r) /\ r.why = "end" /\ repeat = "all")
         => (queue' = Append(queue, r.trk) /\ now' = NoTrack)]_vars

\* C7: once the advance over a queue of N unresolved tracks that all fail
\* resolution has ended, the queue is empty, nothing is now playing, and
\* exactly N resolutions were attempted and exactly N skip notices sent.
C7_DrainsWithNNotices ==
    Done => (queue = << >> /\ now = NoTrack /\ attempts = DrainN /\ notices = DrainN)

\* C8: after add_and_play has appended a track onto an idle session with an
\* empty queue, and while since then only add_and_play has acted, every stream
\* has opened and no track has ended: the tracks appended since are all
\* queued in the order of their appends until the first is started, and then
\* the first is playing and is player["now"], and the later ones are queued
\* in that order.
C8_FirstEnqueuePlays ==
    first # 0 =>
        IF vcState = "idle"
        THEN Ids(queue) = [k \in 1..(nextId - first) |-> first + k - 1]
        ELSE /\ playingId = first
             /\ now = EagerTrack(first)
             /\ Ids(queue) = [k \in 1..(nextId - first - 1) |-> first + k]

C10_ShufflePermutes ==
    [][ShuffleBtn =>
         /\ Len(queue') = Len(queue)
         /\ Multiset(queue') = Multiset(queue)
         /\ UNCHANGED <<now, repeat, volume>>]_vars

\* C10 witness: a full queue whose order a shuffle has changed.
C10_Reordered ==
    /\ Len(queue) = MaxShuffle
    /\ \E i, j \in DOMAIN queue : i < j /\ queue[i].id > queue[j].id

\* C11: from the default volume, under any sequence of volume presses the
\* volume stays within 0.0..1.0; a press of Vol+ below the cap raises it or
\* puts it exactly on the cap, a press of Vol- above the floor lowers it or
\* puts it exactly on the floor (so repeated presses reach the end), and a
\* press at the cap or at the floor leaves it there.
C11_VolumeClamped ==
    /\ [](volume \in VolMin..VolMax)
    /\ [][/\ VolUp => (volume' = VolMax \/ (volume' > volume /\ volume' < VolMax))
          /\ VolDown => (volume' = VolMin \/ (volume' < volume /\ volume' > VolMin))
          /\ (VolUp /\ volume = VolMax) => volume' = VolMax
          /\ (VolDown /\ volume = VolMin) => volume' = VolMin]_vars
\* the cap has been reached from the default by presses of Vol+
C11_AtCap == volume = VolMax

\* the session has no display attached and the store holds no record of one
Detached ==
    /\ panel_msg_id = 0
    /\ ~panel_channel_id
    /\ panel_last_active = -1
    /\ panels = 0

\* C12: a sweep that finds the attached display's last activity more than the
\* inactivity threshold back ends with the display detached (panel_msg_id,
\* panel_channel_id and panel_last_active null) and no record in the store,
\* whether its delete succeeds or not; a sweep that finds the last activity
\* within the threshold changes nothing and starts no delete; and nothing but
\* such a sweep ever detaches a display.
C12_SweepDetachesStale ==
    [][/\ (SweepTick /\ Stale) => (Detached' \/ PCount({"sw_delete"})' = 1)
       /\ \A t \in PLive : SwDelete(t) => Detached'
       /\ (SweepTick /\ ~Stale)
            => UNCHANGED <<panel_msg_id, panel_channel_id, panel_last_active, panels, live,
                           ptasks>>
       /\ (panel_channel_id /\ ~panel_channel_id')
            => ((SweepTick /\ Stale) \/ \E t \in PLive : SwDelete(t))]_vars
\* a display that was attached has been detached by a sweep that ran after
\* the threshold had passed
C12_SweptAway ==
    /\ Detached
    /\ nextMsg > 1
    /\ clock > PANEL_INACTIVITY_SECONDS
    /\ ptasks = EmptyBag

\* C13 as stated: when the resolver returns a stream for the single queued
\* track "Song A" and playback starts, the track playing is nowPlaying, its
\* title is the title it was queued with, and the queue is empty.
C13_TitleAsQueued ==
    [][\A r \in Live :
         (PnResolveWith(r, TRUE) /\ r.trk.title = "given" /\ vcState' = "playing")
         => (now'.id = r.trk.id /\ now'.title = "given" /\ queue' = << >>)]_vars

\* C13, amended: when the resolver returns a stream for the single queued
\* track and playback starts, the track playing is nowPlaying, it carries a
\* stream, the queue is empty, and its title is the extractor's title when
\* the extractor gives one and the title it was queued with otherwise.
C13_TitleFromResolver ==
    [][\A r \in Live : \A titled \in BOOLEAN :
         (PnResolveInfo(r, TRUE, titled) /\ r.trk.title = "given" /\ vcState' = "playing")
         => /\ now' = [id |-> r.trk.id, stream |-> TRUE,
                        title |-> IF titled THEN "info" ELSE "given"]
            /\ playingId' = r.trk.id
            /\ queue' = << >>]_vars
\* the single queued track plays under the extractor's title
C13_PlaysRetitled ==
    /\ vcState = "playing"
    /\ now = [id |-> 1, stream |-> TRUE, title |-> "info"]
    /\ playingId = 1
    /\ queue = << >>
    /\ attempts = 1

\* C14: at every instant at most one panel message sent for the session is
\* live (sent and not yet deleted).
C14_OneLiveDisplay == Cardinality(live) <= 1

\* C15: the step of the player's thread at the end of a track (its "after"
\* callback) leaves queue, now, start_time and repeat as they are and does
\* nothing but hand one _after_play to the loop; so does the callback set
\* off by a skip; what a completion does to the queue and to now is done by
\* that _after_play when the loop runs it.
C15_CompletionOnLoop ==
    [][/\ PlayerEnds
            => /\ UNCHANGED <<queue, now, start_time, repeat>>
               /\ threads' = threads (+) One(ThEnd(PlayingTrack(now, playingId), "end"))
       /\ Skip
            => /\ UNCHANGED <<queue, now, start_time, repeat>>
               /\ threads' = threads (+) One(ThEnd(PlayingTrack(now, playingId), "skip"))
       /\ (CountPc({"ap_start"})' < CountPc({"ap_start"}))
            => \E r \in Live : AfterPlay(r)]_vars
\* a track has ended, its completion is handed to the loop and has not run:
\* the session still holds the track as now
C15_HandedOver ==
    /\ \E r \in Live : r.pc = "ap_start" /\ r.why = "end" /\ now = r.trk
    /\ start_time
    /\ vcState = "idle"

\* C16: every start attempt is followed by exactly one run of _after_play:
\* when the start raised, the error branch runs it once its message is out;
\* when the start succeeded, the player it started hands one over at the
\* moment it stops being the client's player (end of track, skip, stop).
C16_AfterPlayOncePerStart ==
    [][/\ \A r \in Live :
            PnErrSent(r) => CountPc({"ap_sleep"})' = CountPc({"ap_sleep"}) + 1
       /\ (playingId # 0 /\ playingId' # playingId)
            => CountPc({"ap_start"})' = CountPc({"ap_start"}) + 1]_vars

\* the repeat policy of _after_play on now n and queue q
Requeued(n, q) ==
    IF n = NoTrack THEN q
    ELSE IF repeat = "single" THEN <<n>> \o q
    ELSE IF repeat = "all" THEN Append(q, n)
    ELSE q

\* C17: when the start of a popped track has failed and its error message
\* has been handled, the session does what it does at the end of a track: the
\* repeat policy is applied to now, now and start_time are cleared and an
\* advance is on its way; and no failed start leaves the session halted (no
\* track playing, nothing pending) with tracks queued.
C17_StartFailureAdvances ==
    /\ [][\A r \in Live :
            PnErrSent(r) => /\ queue' = Requeued(now, queue)
                            /\ now' = NoTrack
                            /\ start_time' = FALSE
                            /\ CountPc({"ap_sleep"})' = CountPc({"ap_sleep"}) + 1]_vars
    /\ []((now # NoTrack /\ vcState = "idle" /\ threads = EmptyBag) => queue = << >>)

\* C18: an import whose page fetch fails after k tracks were appended leaves
\* those k tracks at the back of the queue in playlist order, behind the tracks
\* queued before, and leaves now, the repeat mode, the volume and the voice
\* client as they are; nothing of the import is left running.
C18_FailedImportKeepsTracks ==
    [][(imports' = imports + 1 /\ threads' = threads)
        => /\ \E k \in 0..MaxFetched :
                /\ queue' = queue \o [i \in 1..k |-> LazyTrack(nextId + i - 1)]
                /\ nextId' = nextId + k
           /\ UNCHANGED <<now, repeat, volume, vcState, playingId, start_time>>]_vars
\* a failed import has left two tracks behind a track queued before, while a
\* track plays
C18_TwoKeptBehind ==
    /\ imports = 1
    /\ threads = EmptyBag
    /\ now = EagerTrack(1)
    /\ vcState = "playing"
    /\ Len(queue) >= 3
    /\ queue[Len(queue)] = LazyTrack(nextId - 1)
    /\ queue[Len(queue) - 1] = LazyTrack(nextId - 2)
    /\ queue[Len(queue) - 2].id = nextId - 3

\* C19: whenever now is null, nothing plays and the queue is not empty, some
\* coroutine of the scheduler is still on its way to an advance.
C19_IdleQueueHasAdvance ==
    (now = NoTrack /\ vcState = "idle" /\ queue # << >>) => threads # EmptyBag

\* the tracks created earlier that a step puts into the queue
PutBack == {i \in IdSet(queue') \ IdSet(queue) : i < nextId}

\* C20: the queue never holds the track that is now; and a step that puts a
\* track created earlier (back) into the queue clears now and start_time and
\* puts it where the repeat mode says: at the front under "single", at the
\* back under "all", never under "off".
C20_RequeuedOnlyOnCompletion ==
    /\ [](now # NoTrack => now.id \notin IdSet(queue))
    /\ [][\A i \in PutBack :
            /\ now' = NoTrack
            /\ start_time' = FALSE
            /\ \/ repeat = "single" /\ Head(queue').id = i
               \/ repeat = "all" /\ queue'[Len(queue')].id = i]_vars
\* a playlist track that was resolved (so it has been now) is back in the
\* queue and now is null
C20_PutBackAfterPlaying ==
    /\ now = NoTrack
    /\ \E k \in DOMAIN queue : queue[k].stream /\ queue[k].title = "given"

\* a _play_next suspended in its panel part, before it creates the refresh task
PanelPending == PCount({"pn_edit"}) + Cardinality({t \in PLive : t.upd})

\* C21: in no reachable state is a refresh task live for a session whose
\* nowPlaying is null and that has no advance pending.
C21_NoRefreshWhenNotPlaying ==
    (now = NoTrack /\ AdvPending = 0 /\ PanelPending = 0) => panel_updater = NoUpdater

\* C22: while a track plays and a display is attached (no panel operation
\* being in progress), the refresh task is running.
C22_RefreshWhilePlaying ==
    (/\ vcState = "playing"
     /\ now # NoTrack
     /\ panel_msg_id # 0
     /\ panel_channel_id
     /\ ptasks = EmptyBag) => panel_updater # NoUpdater

\* C23: pause moves a playing session to paused and resume a paused one to
\* playing, both leaving queue, nowPlaying, repeatMode and volume as they
\* were; a session becomes paused from playing only, and nothing but resume
\* or the start of a track makes a paused session play.
C23_PauseResumeFrame ==
    [][/\ Pause => /\ vcState = "playing" /\ vcState' = "paused"
                   /\ UNCHANGED <<queue, now, repeat, volume, playingId>>
       /\ Resume => /\ vcState = "paused" /\ vcState' = "playing"
                    /\ UNCHANGED <<queue, now, repeat, volume, playingId>>
       /\ (vcState' = "paused" /\ vcState # "paused") => (vcState = "playing" /\ now' = now)
      ]_vars

\* the second track, started after a skip, has been paused
C23_PausedSecondTrack == vcState = "paused" /\ playingId = 2 /\ now = EagerTrack(2)

\* C24: the advance that a skip triggers takes the track that was at the
\* front of the queue before the skip, in every repeat mode: the completion
\* of a skipped track leaves the front of a non-empty queue where it was.
C24_SkipAdvancesToFront ==
    [][\A r \in Live :
         (AfterPlay(r) /\ r.why = "skip" /\ queue # << >>) => Head(queue') = Head(queue)
      ]_vars

\* C25: every user interaction with the session, a refused command included,
\* sets panel_last_active to the current time, and the sweep detaches no
\* display within the inactivity threshold after a user interaction.
C25_InteractionKeepsPanel ==
    [][/\ (Touch \/ CmdRejected) => panel_last_active' = clock
       /\ (panel_channel_id /\ ~panel_channel_id') =>
             \/ last_interaction = -1
             \/ clock - last_interaction > PANEL_INACTIVITY_SECONDS
      ]_vars

\* C26: the persisted panel map has a record for the group if and only if
\* the session's panel_msg_id is set, with the same message id and with the
\* session's panel channel set; this holds in every state, so every attach
\* and detach changes the fields and the record together, also when a send,
\* fetch or delete fails.
C26_StoreMatchesSession ==
    /\ panels = panel_msg_id
    /\ panels # 0 => panel_channel_id

\* a second display has been attached in place of the first and recorded
C26_Reattached == panel_msg_id = 2 /\ panels = 2 /\ ptasks = EmptyBag

\* C27: once the session has come to rest at Idle (nothing playing, now
\* null, no coroutine or panel operation pending, no refresh task), the
\* attached display shows the session's state: after the last track has
\* ended it shows no now-playing track.
C27_DisplayShowsState ==
    (/\ Done
     /\ ptasks = EmptyBag
     /\ panel_updater = NoUpdater
     /\ vcState = "idle"
     /\ now = NoTrack
     /\ panel_msg_id \in live) => shown[panel_msg_id] = 0

\* C28: with repeat off and no further enqueue, a session that has come to
\* rest (nothing playing, no coroutine pending) is Idle with an empty queue,
\* nowPlaying null and playbackStartedAt null: no error leaves it stuck
\* between states.
C28_RestsAtIdle ==
    (Done /\ vcState = "idle" /\ repeat = "off")
        => (queue = << >> /\ now = NoTrack /\ ~start_time)

\* C29: a track whose start has failed is discarded, not requeued, in every
\* repeat mode: when the failure of a start has been reported, the failed
\* track (still in now) is not in the queue afterwards, so a chain of failing
\* starts is no longer than the queue.
C29_FailedStartDiscarded ==
    [][\A r \in Live :
         (PnErrSent(r) /\ now # NoTrack) => now.id \notin IdSet(queue')
      ]_vars

\* the tracks an advance has popped and holds while it resolves them
Held == {r.trk.id : r \in {x \in Live : x.pc = "pn_resolve"}}

\* C30: with repeat off and no shuffle, skip or stop, tracks start in the
\* order in which they were appended (the order of their ids): when a track
\* starts, no track appended before it is still waiting to be started.
C30_StartsInAppendOrder ==
    [][(playingId' # 0 /\ playingId' # playingId)
         => \A j \in IdSet(queue') \cup Held' : j > playingId'
      ]_vars

\* the track dicts of the session: those queued, the one in now and those an
\* advance holds while resolving them
Resolving == {r.trk : r \in {x \in Live : x.pc = "pn_resolve"}}
AllTracks == {queue[k] : k \in 1..Len(queue)} \cup ({now} \ {NoTrack}) \cup Resolving

\* C31: the resolver works only on a track that an advance has popped and
\* that has no stream_url; a track that carries a stream_url keeps its fields
\* for good, through every repeat re-insertion, and a track whose resolution
\* has returned is either gone or carries a stream_url, so no track is
\* resolved twice.
C31_ResolvedOnce ==
    /\ [](\A t \in Resolving : ~t.stream /\ t.id \notin IdSet(queue) /\ t.id # now.id)
    /\ [][/\ \A t \in AllTracks : t.stream => \A u \in AllTracks' : u.id = t.id => u = t
          /\ \A r \in Live : PnResolve(r) =>
                \A u \in AllTracks' : u.id = r.trk.id => u.stream]_vars

\* the playlist's track, resolved once, is back in the queue after a repeat
C31_ResolvedRequeued == attempts = 1 /\ queue # << >> /\ Head(queue).stream

\* An operation on the second guild.
OtherOp ==
    \/ OtherGetPlayer
    \/ OtherTouch
    \/ OtherRepeatBtn
    \/ \E t \in PLive : SwDeleteOther(t)

TrackPositions(its) == SelectSeq([k \in 1..Len(its) |-> k], LAMBDA k : its[k])

\* The number of tracks an import under cap is to take from a playlist.
Wanted(its, cap) ==
    IF cap > 0 THEN Min(cap, Len(TrackPositions(its))) ELSE Len(TrackPositions(its))

\* C33: a playlist import that does not fail appends, in playlist order,
\* exactly min(cap, number of items carrying a track) tracks when the cap is
\* positive and all of them when it is 0, never more than the cap, and its
\* paging loop terminates.
C33_ImportTakesCapped ==
    /\ [](/\ page.cap > 0 => page.added <= page.cap
          /\ page.added <= Len(TrackPositions(page.items))
          /\ page.out = SubSeq(TrackPositions(page.items), 1, page.added)
          /\ Len(queue) = (IF nextId - page.added = 2 THEN 1 ELSE 0) + page.added
          /\ \A k \in 1..Len(queue) : queue[k].id = k
          /\ page.pc = "done" => page.added = Wanted(page.items, page.cap))
    /\ <>(page.pc = "done")

\* An import has ended at its cap, over more than one page, on a playlist
\* that holds an item without a track and more tracks than the cap.
C33_CappedOverPages ==
    /\ page.pc = "done"
    /\ page.cap > 0
    /\ page.added = page.cap
    /\ page.offset > page.per_page
    /\ Len(TrackPositions(page.items)) > page.cap
    /\ \E k \in 1..page.offset : ~page.items[k]
    /\ queue # << >> /\ Head(queue).stream

C35_LeaveIsFinal ==
    /\ [][\A r \in Live : LeaveDone(r) =>
             /\ voice_client' = "none"
             /\ queue' = << >>
             /\ now' = NoTrack
             /\ repeat' = "off"
             /\ panel_updater' = NoUpdater]_vars
    /\ [](voice_client = "none" =>
             /\ vcState = "idle"
             /\ now = NoTrack
             /\ queue = << >>
             /\ panel_updater = NoUpdater)

\* The refresh tasks of the session that are neither finished nor cancelled:
\* the one in player["panel_updater"] and those left behind by a creation.
RefreshTasks ==
    (IF panel_updater.pc = "none" THEN 0 ELSE 1) + PCount({"upd_left"})

\* C36: at most one refresh task that is neither finished nor cancelled exists
\* at any time: a creation leaves no earlier task behind, the task in
\* player["panel_updater"] being cancelled in the same segment.
C36_OneRefreshTask == RefreshTasks <= 1

\* The second track has been started and has its refresh task, created
\* after the first track's.
C36_SecondTaskCreated ==
    /\ panel_updater.pc = "fetch"
    /\ now.id = 2
    /\ vcState = "playing"
    /\ PCount({"pn_edit", "ep_delete", "ep_send"}) = 0

\* the tracks that wait to be started: those queued and those an advance
\* holds while it resolves them
Waiting == IdSet(queue) \cup Held

\* C37: no queued track is lost to a concurrent advance or playback: a step
\* of an advance that takes a track with a stream_url from the front of the
\* queue, or that gets the stream_url of the track it holds, while the voice
\* client is playing another track, leaves that track waiting or started.
C37_NoTrackDropped ==
    [][/\ \A r \in Live :
            (PnResolveWith(r, TRUE) /\ vcState = "playing")
               => r.trk.id \in Waiting' \cup {playingId'}
       /\ \A r \in Live :
            (/\ AapCheck(r) \/ SpVoice(r) \/ SpConnect(r) \/ AfterPlayWake(r)
                   \/ PnSleepWake(r)
             /\ vcState = "playing"
             /\ queue # << >>)
               => Head(queue).id \in Waiting' \cup {playingId'}]_vars
====
